---- MODULE Spec2Model ----
(***************************************************************************)
(* Model of generate_test_data.py: the calendar walk that emits TrackPlay  *)
(* records (create_play_history_xml), the year summary derived from them   *)
(* (create_year_metadata_xml) and the write / verify / report sequence of  *)
(* main.                                                                   *)
(*                                                                         *)
(* Datetimes are seconds since start_date = datetime(YEAR, 1, 1).          *)
(* Probabilities are in thousandths (0.8 is 800).  A random.random() draw  *)
(* is a point r of a grid of DrawGrid points, standing for r / DrawGrid.   *)
(* Texts produced by str() are sequences of decimal digits; the text       *)
(* produced by strftime is the tuple of its fields plus the zone suffix.   *)
(***************************************************************************)
EXTENDS Integers, Sequences, FiniteSets, TLC

VARIABLES
    TOTAL_PLAYS,        \* configured target play count (in-file constant)
    pc,                 \* position in main / create_play_history_xml
    current_date,       \* simulated clock
    current_plays,      \* plays emitted so far
    base_probability,   \* the local of the walk loop, thousandths
    forced,             \* the last safety check took its branch (line 277)
    plays,              \* children of <Plays>, in document order
    output_file,        \* play_history.xml on disk
    backup_file,        \* play_history_backup.xml on disk
    metadata_root,      \* result of create_year_metadata_xml
    metadata_file,      \* year_metadata.xml on disk
    verify,             \* outcome of the post-write verification
    track_duration,     \* argument of a generate_realistic_play_duration call
    play_duration,      \* value that call returned
    pattern             \* pattern_name a lookup on its own selected

vars == << TOTAL_PLAYS, pc, current_date, current_plays, base_probability,
           forced, plays, output_file, backup_file, metadata_root,
           metadata_file, verify, track_duration, play_duration, pattern >>

(***************************************************************************)
(* Bounds of the exploration.                                              *)
(***************************************************************************)
\* Largest configured target explored.  TOTAL_PLAYS is a constant edited in
\* the file (12000 as shipped); a run is explored for every target from 0 to
\* this bound.
MaxTotalPlays == 2
\* Length of the simulated year in minutes (527040 for the year 2024): the
\* walk starts at start_date and end_date is its last second.
YearMinutes == 480
\* Number of grid points of a random.random() draw.
DrawGrid == 100

YEAR == 2024

\* The value None of an element reference.
None == [ none |-> TRUE ]
\* A file that was never written, and a file holding a document.
Absent == [ written |-> FALSE ]
Written(document) == [ written |-> TRUE, document |-> document ]

(***************************************************************************)
(* str(n) and int(text) on non-negative integers.                          *)
(***************************************************************************)
RECURSIVE str(_)
str(n) == IF n < 10 THEN << n >> ELSE Append(str(n \div 10), n % 10)

RECURSIVE int(_)
int(text) ==
    IF Len(text) = 0 THEN 0
    ELSE 10 * int(SubSeq(text, 1, Len(text) - 1)) + text[Len(text)]

(***************************************************************************)
(* Calendar arithmetic of datetime.                                        *)
(***************************************************************************)
IsLeap(y) == (y % 4 = 0 /\ y % 100 # 0) \/ y % 400 = 0

DaysInMonth(y, m) ==
    IF m = 2 THEN (IF IsLeap(y) THEN 29 ELSE 28)
    ELSE IF m \in {4, 6, 9, 11} THEN 30 ELSE 31

\* <<year, month, day>> of the day that lies d days after y-m-01.
RECURSIVE DateAfter(_, _, _)
DateAfter(y, m, d) ==
    IF d < DaysInMonth(y, m) THEN << y, m, d + 1 >>
    ELSE IF m = 12 THEN DateAfter(y + 1, 1, d - DaysInMonth(y, m))
    ELSE DateAfter(y, m + 1, d - DaysInMonth(y, m))

\* Days from YEAR-01-01 to y-m-01.
RECURSIVE DaysBefore(_, _)
DaysBefore(y, m) ==
    IF y = YEAR /\ m = 1 THEN 0
    ELSE IF m = 1 THEN DaysBefore(y - 1, 12) + DaysInMonth(y - 1, 12)
    ELSE DaysBefore(y, m - 1) + DaysInMonth(y, m - 1)

start_date == 0

end_date == YearMinutes * 60 - 1

Hour(dt) == (dt \div 3600) % 24

\* datetime.weekday(): Monday is 0.
Weekday(dt) ==
    LET y1 == YEAR - 1
        jan1 == (1 + 5 * (y1 % 4) + 4 * (y1 % 100) + 6 * (y1 % 400)) % 7
    IN  (jan1 + 6 + dt \div 86400) % 7

\* strftime("%Y-%m-%dT%H:%M:%S.%f")[:-3] + "-07:00"
strftime(dt) ==
    LET ymd == DateAfter(YEAR, 1, dt \div 86400)
    IN  [ fields |-> << ymd[1], ymd[2], ymd[3],
                        (dt \div 3600) % 24, (dt \div 60) % 60, dt % 60, 0 >>,
          zone |-> "-07:00" ]

\* datetime.fromisoformat of the text with its zone suffix split off.
fromisoformat(text) ==
    LET f == text.fields
    IN  (DaysBefore(f[1], f[2]) + f[3] - 1) * 86400
            + f[4] * 3600 + f[5] * 60 + f[6]

\* timedelta.days of (a - b): floor division.
DaysBetween(a, b) == (a - b) \div 86400

(***************************************************************************)
(* generate_listening_patterns: the table in definition order; the         *)
(* frequency multiplier is in tenths.                                      *)
(***************************************************************************)
listening_patterns ==
    << [ name |-> "morning_commute", start_hour |-> 7, end_hour |-> 9,
         genres |-> { "Pop", "Rock", "Electronic" }, freq_mult |-> 12 ],
       [ name |-> "work_hours", start_hour |-> 9, end_hour |-> 17,
         genres |-> { "Jazz", "Classical", "Ambient", "Instrumental" },
         freq_mult |-> 8 ],
       [ name |-> "evening_relax", start_hour |-> 18, end_hour |-> 22,
         genres |-> { "Folk", "Indie", "Alternative", "Chill" },
         freq_mult |-> 10 ],
       [ name |-> "weekend_party", start_hour |-> 20, end_hour |-> 24,
         genres |-> { "Dance", "Hip Hop", "Pop", "Electronic" },
         freq_mult |-> 15 ],
       [ name |-> "late_night", start_hour |-> 22, end_hour |-> 2,
         genres |-> { "Ambient", "Jazz", "Blues", "Soul" }, freq_mult |-> 7 ],
       [ name |-> "workout", start_hour |-> 6, end_hour |-> 8,
         genres |-> { "Electronic", "Hip Hop", "Rock", "Metal" },
         freq_mult |-> 13 ] >>

\* The window test of the lookup loop, for one table entry.
InWindow(p, hour) ==
    IF p.start_hour <= p.end_hour
    THEN p.start_hour <= hour /\ hour < p.end_hour
    ELSE hour >= p.start_hour \/ hour < p.end_hour

\* FindPattern going on after a match, so that the last matching entry wins.
RECURSIVE FindPattern_LastMatch(_, _)
FindPattern_LastMatch(hour, i) ==
    IF i > Len(listening_patterns) THEN 0
    ELSE LET later == FindPattern_LastMatch(hour, i + 1)
         IN  IF later # 0 THEN later
             ELSE IF InWindow(listening_patterns[i], hour) THEN i
             ELSE 0

\* Index of the entry the lookup loop breaks on, from entry i on; 0 when the
\* loop runs to its end (pattern_name "general", pattern_info None).
RECURSIVE FindPattern(_, _)
FindPattern(hour, i) ==
    IF i > Len(listening_patterns) THEN 0
    ELSE IF InWindow(listening_patterns[i], hour) THEN i
    ELSE FindPattern(hour, i + 1)

pattern_info(dt) == FindPattern(Hour(dt), 1)

pattern_name(dt) ==
    IF pattern_info(dt) = 0 THEN "general"
    ELSE listening_patterns[pattern_info(dt)].name

Min(a, b) == IF a <= b THEN a ELSE b

\* The probability the emission draw is compared with, in thousandths.
EmissionProbability(dt) ==
    LET base == 800
        withPattern == IF pattern_info(dt) # 0
                       THEN (base * listening_patterns[pattern_info(dt)].freq_mult) \div 10
                       ELSE base
        withWeekend == IF Weekday(dt) >= 5
                       THEN (withPattern * 12) \div 10
                       ELSE withPattern
    IN  Min(withWeekend, 1000)

\* Outcomes of one random.random() call.
Draws == 0 .. (DrawGrid - 1)

\* random.random() < p, for the draw r and p in thousandths.
DrawBelow(r, p) == r * 1000 < p * DrawGrid

(***************************************************************************)
(* The track pool.  The script draws 500 tracks at random; the model walks *)
(* one fixed pool whose entries share artists, titles and genres so that   *)
(* the three frequency tables of the summary differ.                       *)
(***************************************************************************)
track_pool ==
    << [ artist |-> "The Beatles", title |-> "Love Song", genre |-> "Rock",
         duration |-> 120000 ],
       [ artist |-> "The Beatles", title |-> "The Night", genre |-> "Jazz",
         duration |-> 360000 ],
       [ artist |-> "Drake", title |-> "Love Song", genre |-> "Jazz",
         duration |-> 239999 ] >>

\* Tracks random.choice may return for the pattern active at dt.
CandidateTracks(dt) ==
    LET pool == { track_pool[i] : i \in 1 .. Len(track_pool) }
        info == pattern_info(dt)
        preferred == IF info = 0 THEN {}
                     ELSE { t \in pool : t.genre \in listening_patterns[info].genres }
    IN  IF info # 0 /\ listening_patterns[info].genres # {}
        THEN (IF preferred # {} THEN preferred ELSE pool)
        ELSE pool

(***************************************************************************)
(* generate_realistic_play_duration.  r1 and r2 are the two random.random()*)
(* draws; Tier is the branch they select; the result is random.randint over*)
(* the branch's range.  int(x * 0.8) and int(x * 0.5) agree with the      *)
(* integer quotients below for every x the script can pass.                *)
(***************************************************************************)
Tier(r1, r2) ==
    IF DrawBelow(r1, 700) THEN 1
    ELSE IF DrawBelow(r2, 900) THEN 2
    ELSE 3

\* The branches the two draws can select.
Tiers == { Tier(r1, r2) : r1 \in Draws, r2 \in Draws }

\* TierRange with the short-play range starting at 0 instead of 30.
TierRange_ShortFromZero(track_duration_ms, tier) ==
    LET track_duration_seconds == track_duration_ms \div 1000
        pct80 == (track_duration_seconds * 8) \div 10
        pct50 == (track_duration_seconds * 5) \div 10
    IN  IF tier = 1 THEN << pct80, track_duration_seconds >>
        ELSE IF tier = 2 THEN << pct50, pct80 >>
        ELSE << 0, pct50 >>

\* <<a, b>> of the randint(a, b) call of the tier.
TierRange(track_duration_ms, tier) ==
    LET track_duration_seconds == track_duration_ms \div 1000
        pct80 == (track_duration_seconds * 8) \div 10
        pct50 == (track_duration_seconds * 5) \div 10
    IN  IF tier = 1 THEN << pct80, track_duration_seconds >>
        ELSE IF tier = 2 THEN << pct50, pct80 >>
        ELSE << 30, pct50 >>

\* Values generate_realistic_play_duration can return when its draws select
\* the branch tier.
generate_realistic_play_duration(track_duration_ms, tier) ==
    LET range == TierRange(track_duration_ms, tier)
    IN  range[1] .. range[2]

\* The play duration the walk explores for a track: the greatest value
\* generate_realistic_play_duration can return for it.
PlayDurationSamples(track_duration_ms) ==
    LET ranges == { rg \in { TierRange(track_duration_ms, tier) : tier \in Tiers } :
                      rg[1] <= rg[2] }
        highs == { rg[2] : rg \in ranges }
    IN  { p \in highs : \A q \in highs : p >= q }

(***************************************************************************)
(* The TrackPlay element built at lines 222-259, with the child elements   *)
(* the summary, the verification and the claims read.                      *)
(***************************************************************************)
TrackPlay(track, dt, duration) ==
    [ Title |-> track.title,
      Artist |-> track.artist,
      Genre |-> track.genre,
      Duration |-> str(track.duration),
      PlayedAt |-> strftime(dt),
      PlayDuration |-> str(duration) ]

\* SubElement inserting the new element as the first child.
SubElement_InsertFirst(children, element) == << element >> \o children

\* ET.SubElement(plays_element, "TrackPlay"): the new element is the last child.
SubElement(children, element) == Append(children, element)

\* LoopCondition comparing the count with <= instead of <.
LoopCondition_CountOffByOne ==
    current_plays <= TOTAL_PLAYS /\ current_date <= end_date

\* LoopCondition without the test of the clock.
LoopCondition_NoDateTest == current_plays < TOTAL_PLAYS

\* The condition of the while loop at line 172.
LoopCondition == current_plays < TOTAL_PLAYS /\ current_date <= end_date

\* advance_minutes with a step that does not move the clock.
advance_minutes_WithZero == { 0, 30, 60 }

\* Values of random.randint(5, 60) the walk explores, in minutes.
advance_minutes == { 30, 60 }

(***************************************************************************)
(* create_year_metadata_xml.                                               *)
(***************************************************************************)
\* Index of key k in the items of a dict, 0 when absent.
RECURSIVE IndexOf(_, _, _)
IndexOf(items, k, i) ==
    IF i > Len(items) THEN 0
    ELSE IF items[i][1] = k THEN i
    ELSE IndexOf(items, k, i + 1)

\* The dict built by the counting loop over keys, as its items in insertion
\* order: << key, count >>.
RECURSIVE Tally(_)
Tally(keys) ==
    IF Len(keys) = 0 THEN << >>
    ELSE LET before == Tally(SubSeq(keys, 1, Len(keys) - 1))
             k == keys[Len(keys)]
             at == IndexOf(before, k, 1)
         IN  IF at # 0
             THEN [ before EXCEPT ![at] = << k, before[at][2] + 1 >> ]
             ELSE Append(before, << k, 1 >>)

\* MaxScan replacing the kept item on an equal count too.
RECURSIVE MaxScan_LastWins(_, _, _)
MaxScan_LastWins(items, i, best) ==
    IF i > Len(items) THEN best
    ELSE IF items[i][2] >= items[best][2] THEN MaxScan_LastWins(items, i + 1, i)
    ELSE MaxScan_LastWins(items, i + 1, best)

\* max(items, key=count): scanning from item i, best is the index kept so far;
\* a later item replaces it only when its count is strictly greater.
RECURSIVE MaxScan(_, _, _)
MaxScan(items, i, best) ==
    IF i > Len(items) THEN best
    ELSE IF items[i][2] > items[best][2] THEN MaxScan(items, i + 1, i)
    ELSE MaxScan(items, i + 1, best)

\* max(d.items(), key=lambda x: x[1])[0]
TopKey(items) == items[MaxScan(items, 2, 1)][1]

\* NoPlays that takes a single play for none.
NoPlays_OffByOne(ps) == Len(ps) <= 1

\* len(plays) == 0 at line 290.
NoPlays(ps) == Len(ps) = 0

\* f"{artist} - {title}"
TrackKey(play) == << play.Artist, " - ", play.Title >>

\* CountPlays counting the entries of the tracks dict instead of the plays.
CountPlays_DistinctTracks(ps) ==
    Len(Tally([ i \in 1 .. Len(ps) |-> TrackKey(ps[i]) ]))

\* len(plays) at line 355.
CountPlays(ps) == Len(ps)

RECURSIVE SumDurations(_)
SumDurations(ps) ==
    IF Len(ps) = 0 THEN 0
    ELSE SumDurations(SubSeq(ps, 1, Len(ps) - 1)) + int(ps[Len(ps)].PlayDuration)

\* first_play / last_play of the loop at lines 315-318.
RECURSIVE FirstPlay(_)
FirstPlay(ps) ==
    LET played_at == fromisoformat(ps[Len(ps)].PlayedAt)
    IN  IF Len(ps) = 1 THEN played_at
        ELSE LET first_play == FirstPlay(SubSeq(ps, 1, Len(ps) - 1))
             IN  IF played_at < first_play THEN played_at ELSE first_play

RECURSIVE LastPlay(_)
LastPlay(ps) ==
    LET played_at == fromisoformat(ps[Len(ps)].PlayedAt)
    IN  IF Len(ps) = 1 THEN played_at
        ELSE LET last_play == LastPlay(SubSeq(ps, 1, Len(ps) - 1))
             IN  IF played_at > last_play THEN played_at ELSE last_play

create_year_metadata_xml(ps) ==
    IF NoPlays(ps) THEN None
    ELSE LET artists == Tally([ i \in 1 .. Len(ps) |-> ps[i].Artist ])
             tracks == Tally([ i \in 1 .. Len(ps) |-> TrackKey(ps[i]) ])
             genres == Tally([ i \in 1 .. Len(ps) |-> ps[i].Genre ])
         IN  [ Year |-> str(YEAR),
               TotalPlays |-> str(CountPlays(ps)),
               TotalMinutes |-> str(SumDurations(ps) \div 60),
               FirstPlay |-> strftime(FirstPlay(ps)),
               LastPlay |-> strftime(LastPlay(ps)),
               TopArtist |-> TopKey(artists),
               TopTrack |-> TopKey(tracks),
               TopGenre |-> IF Len(genres) > 0 THEN TopKey(genres) ELSE "" ]

(***************************************************************************)
(* The run.                                                                *)
(***************************************************************************)
Init ==
    /\ TOTAL_PLAYS \in 0 .. MaxTotalPlays
    /\ pc = "walk"
    /\ current_date = start_date
    /\ current_plays = 0
    /\ base_probability = 0
    /\ forced = FALSE
    /\ plays = << >>
    /\ output_file = Absent
    /\ backup_file = Absent
    /\ metadata_root = None
    /\ metadata_file = Absent
    /\ verify = "pending"
    /\ track_duration = 0
    /\ play_duration = 0
    /\ pattern = "unset"

\* Lines 172-269: one pass through the loop body up to the time advance.
WalkEmit ==
    /\ pc = "walk"
    /\ LoopCondition
    /\ base_probability' = EmissionProbability(current_date)
    /\ \E emit \in { DrawBelow(r, base_probability') : r \in Draws } :
         IF emit
         THEN \E track \in CandidateTracks(current_date) :
                \E duration \in PlayDurationSamples(track.duration) :
                  /\ plays' = SubElement(plays, TrackPlay(track, current_date, duration))
                  /\ current_plays' = current_plays + 1
         ELSE UNCHANGED << plays, current_plays >>
    /\ pc' = "advance"
    /\ UNCHANGED << TOTAL_PLAYS, current_date, forced, output_file, backup_file,
                    metadata_root, metadata_file, verify,
                    track_duration, play_duration, pattern >>

\* Lines 271-279: the time advance and the safety check.
WalkAdvance ==
    /\ pc = "advance"
    /\ \E minutes \in advance_minutes :
         /\ current_date' = current_date + 60 * minutes
         /\ LET days_remaining == DaysBetween(end_date, current_date')
            IN  IF days_remaining < 30 /\ current_plays * 10 < TOTAL_PLAYS * 8
                THEN base_probability' = 950 /\ forced' = TRUE
                ELSE UNCHANGED base_probability /\ forced' = FALSE
    /\ pc' = "walk"
    /\ UNCHANGED << TOTAL_PLAYS, current_plays, plays, output_file, backup_file,
                    metadata_root, metadata_file, verify,
                    track_duration, play_duration, pattern >>

\* Lines 172, 281-284: the loop condition fails and the root is returned.
WalkExit ==
    /\ pc = "walk"
    /\ ~ LoopCondition
    /\ pc' = "write"
    /\ UNCHANGED << TOTAL_PLAYS, current_date, current_plays, base_probability,
                    forced, plays, output_file, backup_file, metadata_root,
                    metadata_file, verify,
                    track_duration, play_duration, pattern >>

\* Lines 383-391: play_history.xml is written.
WriteHistory ==
    /\ pc = "write"
    /\ output_file' = Written(plays)
    /\ pc' = "metadata"
    /\ UNCHANGED << TOTAL_PLAYS, current_date, current_plays, base_probability,
                    forced, plays, backup_file, metadata_root, metadata_file,
                    verify,
                    track_duration, play_duration, pattern >>

\* Lines 394-406: the summary is derived and, unless None, written.
WriteMetadata ==
    /\ pc = "metadata"
    /\ metadata_root' = create_year_metadata_xml(plays)
    /\ metadata_file' = IF metadata_root' # None THEN Written(metadata_root')
                                               ELSE metadata_file
    /\ pc' = "backup"
    /\ UNCHANGED << TOTAL_PLAYS, current_date, current_plays, base_probability,
                    forced, plays, output_file, backup_file, verify,
                    track_duration, play_duration, pattern >>

\* Lines 409-411: the backup copy is written.
WriteBackup ==
    /\ pc = "backup"
    /\ backup_file' = Written(plays)
    /\ pc' = "verify"
    /\ UNCHANGED << TOTAL_PLAYS, current_date, current_plays, base_probability,
                    forced, plays, output_file, metadata_root, metadata_file,
                    verify,
                    track_duration, play_duration, pattern >>

\* Lines 413-431: the written file is parsed again; ET.parse either raises
\* (caught at line 430) or yields the document that was written.
Verify ==
    /\ pc = "verify"
    /\ \E parsed \in BOOLEAN :
         verify' =
            IF ~ parsed THEN "exception"
            ELSE IF output_file.written /\ Len(output_file.document) > 0
                 THEN (IF { "Title", "Artist" } \subseteq DOMAIN output_file.document[1]
                       THEN "success" ELSE "missing_fields")
                 ELSE "no_plays"
    /\ pc' = "report"
    /\ UNCHANGED << TOTAL_PLAYS, current_date, current_plays, base_probability,
                    forced, plays, output_file, backup_file, metadata_root,
                    metadata_file,
                    track_duration, play_duration, pattern >>

\* Lines 433-465: the final report; line 455 divides by len(plays).
Report ==
    /\ pc = "report"
    /\ pc' = IF Len(plays) = 0 THEN "raised" ELSE "done"
    /\ UNCHANGED << TOTAL_PLAYS, current_date, current_plays, base_probability,
                    forced, plays, output_file, backup_file, metadata_root,
                    metadata_file, verify,
                    track_duration, play_duration, pattern >>

Next ==
    \/ WalkEmit
    \/ WalkAdvance
    \/ WalkExit
    \/ WriteHistory
    \/ WriteMetadata
    \/ WriteBackup
    \/ Verify
    \/ Report

Spec == Init /\ [][Next]_vars

(***************************************************************************)
(* generate_realistic_play_duration on its own: the argument is a duration *)
(* the pool construction can draw (line 155), the result any value the two *)
(* draws and randint can give.                                             *)
(***************************************************************************)
\* Step between the sampled arguments.
DurationStep == 4999

TrackDurations ==
    { d \in 120000 .. 360000 : (d - 120000) % DurationStep = 0 } \cup { 360000 }

DurationInit ==
    /\ TOTAL_PLAYS = 0
    /\ pc = "call"
    /\ current_date = start_date
    /\ current_plays = 0
    /\ base_probability = 0
    /\ forced = FALSE
    /\ plays = << >>
    /\ output_file = Absent
    /\ backup_file = Absent
    /\ metadata_root = None
    /\ metadata_file = Absent
    /\ verify = "pending"
    /\ track_duration \in TrackDurations
    /\ play_duration = 0
    /\ pattern = "unset"

DurationCall ==
    /\ pc = "call"
    /\ \E tier \in Tiers :
         play_duration' \in generate_realistic_play_duration(track_duration, tier)
    /\ pc' = "returned"
    /\ UNCHANGED << TOTAL_PLAYS, current_date, current_plays, base_probability,
                    forced, plays, output_file, backup_file, metadata_root,
                    metadata_file, verify, track_duration, pattern >>

DurationNext == DurationCall

DurationSpec == DurationInit /\ [][DurationNext]_vars

(***************************************************************************)
(* The pattern lookup of lines 174-188 on its own: the clock is any value  *)
(* on the five-minute grid of the first PatternDays days.                  *)
(***************************************************************************)
\* Number of days the sampled clock values span.
PatternDays == 1

ClockValues ==
    { 60 * m : m \in { n \in 0 .. (PatternDays * 1440 - 1) : n % 5 = 0 } }

PatternInit ==
    /\ TOTAL_PLAYS = 0
    /\ pc = "lookup"
    /\ current_date \in ClockValues
    /\ current_plays = 0
    /\ base_probability = 0
    /\ forced = FALSE
    /\ plays = << >>
    /\ output_file = Absent
    /\ backup_file = Absent
    /\ metadata_root = None
    /\ metadata_file = Absent
    /\ verify = "pending"
    /\ track_duration = 0
    /\ play_duration = 0
    /\ pattern = "unset"

PatternLookup ==
    /\ pc = "lookup"
    /\ pattern' = pattern_name(current_date)
    /\ pc' = "looked_up"
    /\ UNCHANGED << TOTAL_PLAYS, current_date, current_plays, base_probability,
                    forced, plays, output_file, backup_file, metadata_root,
                    metadata_file, verify, track_duration, play_duration >>

PatternNext == PatternLookup

PatternSpec == PatternInit /\ [][PatternNext]_vars

\* The loop of a sequential program takes its next step whenever it has one.
FairSpec == Spec /\ WF_vars(WalkEmit \/ WalkAdvance \/ WalkExit)

(***************************************************************************)
(* Properties.                                                             *)
(***************************************************************************)
WalkExited == pc \notin { "walk", "advance" }

PlayedAt(i) == fromisoformat(plays[i].PlayedAt)

\* C1: during the walk and at its exit the number of emitted TrackPlay
\* records, as counted by current_plays and as present under <Plays>, is at
\* most TOTAL_PLAYS.
C1_PlaysWithinTarget ==
    current_plays <= TOTAL_PLAYS /\ Len(plays) <= TOTAL_PLAYS

C1_TargetReached ==
    WalkExited /\ TOTAL_PLAYS > 0 /\ current_plays = TOTAL_PLAYS

\* C2: every emitted play's PlayedAt lies between start_date and end_date.
C2_PlayedAtWithinYear ==
    \A i \in 1 .. Len(plays) : start_date <= PlayedAt(i) /\ PlayedAt(i) <= end_date

C2_PlayInLastHalfHour ==
    \E i \in 1 .. Len(plays) : PlayedAt(i) + 30 * 60 > end_date

\* C3: for every pool track duration and every outcome of the draws, the
\* value generate_realistic_play_duration returns is at least 30 and at most
\* the track's duration in whole seconds.
C3_PlayDurationInRange ==
    pc = "returned" =>
        30 <= play_duration /\ play_duration <= track_duration \div 1000

C3_ShortestPlayOfLongestTrack ==
    pc = "returned" /\ track_duration = 360000 /\ play_duration = 30

\* C4: the walk loop terminates on every run, and once it has exited either
\* current_plays equals TOTAL_PLAYS or current_date is past end_date.
C4_WalkTerminates ==
    /\ <> WalkExited
    /\ [] (WalkExited => (current_plays = TOTAL_PLAYS \/ current_date > end_date))

C4_EndsUnderTarget ==
    WalkExited /\ current_date > end_date /\ current_plays < TOTAL_PLAYS

\* C5: in document order the PlayedAt timestamps never decrease.
C5_PlayedAtNonDecreasing ==
    \A i \in 1 .. Len(plays) : \A j \in 1 .. Len(plays) :
        i < j => PlayedAt(i) <= PlayedAt(j)

C5_TwoPlaysEmitted == Len(plays) >= 2

SummaryStepDone == pc \in { "backup", "verify", "report", "done", "raised" }

\* C6: once main is past the summary step, no plays means the summary is None
\* and year_metadata.xml was not written, and at least one play means a
\* summary was produced and written.
C6_SummaryIffPlays ==
    SummaryStepDone =>
        /\ Len(plays) = 0 => (metadata_root = None /\ metadata_file = Absent)
        /\ Len(plays) > 0 => (metadata_root # None
                               /\ metadata_file = Written(metadata_root))

C6_EmptyHistoryNoSummary ==
    SummaryStepDone /\ Len(plays) = 0 /\ output_file = Written(<< >>)
        /\ metadata_file = Absent

\* C7: whatever the outcome of the verification step, main goes on through
\* the final report and returns without raising.
C7_VerificationNeverEscalates ==
    verify # "pending" => pc \in { "report", "done" }

Occurrences(keys, k) == Cardinality({ i \in 1 .. Len(keys) : keys[i] = k })

FirstIndex(keys, k) ==
    CHOOSE i \in 1 .. Len(keys) : keys[i] = k /\ \A j \in 1 .. (i - 1) : keys[j] # k

\* k is a most frequent value of keys and, among the most frequent ones, the
\* one met first.
IsFirstMode(keys, k) ==
    /\ \E i \in 1 .. Len(keys) : keys[i] = k
    /\ \A i \in 1 .. Len(keys) :
         /\ Occurrences(keys, keys[i]) <= Occurrences(keys, k)
         /\ Occurrences(keys, keys[i]) = Occurrences(keys, k)
                => FirstIndex(keys, k) <= FirstIndex(keys, keys[i])

C9_TotalPlaysMatches ==
    metadata_root # None =>
        /\ int(metadata_root.TotalPlays) = Len(plays)
        /\ int(metadata_root.TotalPlays) = current_plays
        /\ output_file.written
        /\ int(metadata_root.TotalPlays) = Len(output_file.document)

C9_SameTrackTwice ==
    /\ metadata_root # None
    /\ Len(plays) = 2
    /\ plays[1].Artist = plays[2].Artist
    /\ plays[1].Title = plays[2].Title

\* C10: in a loop pass that follows a safety check which took its branch,
\* the probability the emission draw was compared with is 0.95.
C10_ForcedProbabilityDrawn ==
    (pc = "advance" /\ forced) => base_probability = 950

\* Number of outcomes << r1, r2 >> of the two draws that select the branch.
TierOutcomes(tier) ==
    Cardinality({ d \in Draws \X Draws : Tier(d[1], d[2]) = tier })

\* C11: of all outcomes of the draws of a generate_realistic_play_duration
\* call, 70% select the range [80%, 100%] of the track length, 20% the range
\* [50%, 80%] and 10% the range [30 s, 50%].
C11_TierShares ==
    pc = "returned" =>
        /\ TierOutcomes(1) * 10 = 7 * DrawGrid * DrawGrid
        /\ TierOutcomes(2) * 10 = 2 * DrawGrid * DrawGrid
        /\ TierOutcomes(3) * 10 = 1 * DrawGrid * DrawGrid

\* The window of table entry i contains the hour.
WindowContains(i, hour) ==
    LET start == listening_patterns[i].start_hour
        end == listening_patterns[i].end_hour
    IN  IF start > end THEN hour >= start \/ hour < end
        ELSE start <= hour /\ hour < end

\* C12: the pattern a lookup selects is the first table entry whose window
\* contains the hour of the clock, and it is "general" exactly when no
\* window contains that hour.
C12_FirstContainingWindow ==
    pc = "looked_up" =>
        LET hour == (current_date \div 3600) % 24
            containing == { i \in 1 .. Len(listening_patterns) : WindowContains(i, hour) }
        IN  /\ (pattern = "general") <=> (containing = {})
            /\ containing # {} =>
                 \E i \in containing :
                    /\ \A j \in containing : i <= j
                    /\ pattern = listening_patterns[i].name

C12_OverlapTakesFirst ==
    /\ pc = "looked_up"
    /\ (current_date \div 3600) % 24 = 7
    /\ WindowContains(1, 7) /\ WindowContains(6, 7)
    /\ pattern = "morning_commute"

====
